---- MODULE Spec2Model ----
(***************************************************************************)
(* clipshr (src/app.py): a Flask application that downloads a media file   *)
(* with yt-dlp, post-processes it with ffmpeg (trim, convert, compress),   *)
(* keeps a process-wide table of progress records that pollers read, and   *)
(* builds a catalog of selectable formats from yt-dlp's format list.       *)
(*                                                                         *)
(* The server runs with threaded=True (app.py:644): every request handler  *)
(* runs on its own thread, so the statements of concurrent handlers        *)
(* interleave.  A handler is modelled statement group by statement group   *)
(* (pc), each group touching the shared state (download_progress, the      *)
(* media folder, db.json) at most once.                                    *)
(***************************************************************************)
EXTENDS Integers, Sequences, FiniteSets, TLC

VARIABLES
    now,                \* wall clock in whole seconds (datetime.now(), line 301)
    download_progress,  \* the global dict: download_id -> progress record
    disk,               \* the files that exist in the media folder
    dbfile,             \* db.json: absent, empty (just opened for writing) or a JSON list
    pc,                 \* per download call: the statement group it is at
    req,                \* per download call: the options of the request
    download_id,        \* per download call: local download_id (0 = None)
    filename,           \* per download call: local filename
    temp_file,          \* per download call: local temp_file
    final_file,         \* per download call: local final_file
    db,                 \* per download call: local db (result of load_db)
    nevents,            \* per download call: progress events delivered so far
    stage,              \* per download call: the encoder stage that failed last
    invoked,            \* per download call: the encoder stages run so far, in order
    response,           \* per download call: what the call returned
    pollResult,         \* the last /progress call: the id asked and the body returned
    all_formats,        \* analyze: the format list yt-dlp returned
    formats,            \* analyze: the catalog built from it
    apc,                \* analyze: position of the analyze call
    delete_pc,          \* delete_file: position of the delete_file call
    delete_filename,    \* delete_file: the filename of the request
    delete_db,          \* delete_file: local db (result of load_db)
    delete_response     \* delete_file: what the call returned

vars == <<now, download_progress, disk, dbfile, pc, req, download_id, filename,
          temp_file, final_file, db, nevents, stage, invoked, response,
          pollResult,
          all_formats, formats, apc, delete_pc, delete_filename, delete_db,
          delete_response>>

jobVars == <<pc, req, download_id, filename, temp_file, final_file, db,
             nevents, stage, invoked, response>>

analyzeVars == <<all_formats, formats, apc>>

deleteVars == <<delete_pc, delete_filename, delete_db, delete_response>>

----------------------------------------------------------------------------
(* Bounds of the model *)

\* the clock runs from second 1 to second MaxTime
MaxTime == 2
\* progress events yt-dlp delivers during one download
MaxEvents == 2
\* length of the format list given to analyze
MaxFormats == 3

\* the download calls
Jobs == {1, 2}

----------------------------------------------------------------------------
(* Values *)

None == "None"
NoId == 0

\* a path in the media folder: "{timestamp}_{title}{suffix}.{ext}"; the title
\* is the one of the URL the call was given, and each call is given its own URL
Path(ts, title, suffix, ext) ==
    [ts |-> ts, title |-> title, suffix |-> suffix, ext |-> ext]

NoPath == Path(0, 0, "", "")

\* os.path.basename / os.path.splitext of a path this program builds
WithSuffix(p, suffix) == [p EXCEPT !.suffix = suffix]
WithExt(p, ext) == [p EXCEPT !.suffix = "", !.ext = ext]

BOOL == {TRUE, FALSE}

\* request.json of /download: trim is "trim_start or trim_end" being truthy
Requests ==
    [trim : BOOL, convert_to : {None, "mp4", "mp3"},
     compress : BOOL, extract_audio : BOOL]

DefaultRequest ==
    [trim |-> FALSE, convert_to |-> None, compress |-> TRUE,
     extract_audio |-> FALSE]

\* a request that trims and converts
TrimConvertRequest ==
    [trim |-> TRUE, convert_to |-> "mp3", compress |-> FALSE,
     extract_audio |-> FALSE]

\* the requests of two calls that run concurrently: the default one, and one
\* that trims and converts
ConcurrentRequests == {DefaultRequest, TrimConvertRequest}

NoRequest == [trim |-> FALSE, convert_to |-> None, compress |-> FALSE,
              extract_audio |-> FALSE]

NoResponse == [kind |-> "none", path |-> NoPath]

\* db.json (lines 16, 24-33)
DbAbsent == [state |-> "absent", items |-> <<>>]
DbEmpty == [state |-> "empty", items |-> <<>>]
DbJson(items) == [state |-> "json", items |-> items]

----------------------------------------------------------------------------
(* Progress records (lines 305-310, 338-353, 416-417, 483-485, 537).  The   *)
(* speed, downloaded and total labels are display strings no handler reads *)
(* back; the record keeps status, percent and eta.                         *)

Record(status, percent, eta) ==
    [status |-> status, percent |-> percent, eta |-> eta]

StartingRecord == Record("starting", 0, "calculating...")
UnknownRecord == Record("unknown", 0, "-")

\* download_progress[id] = rec
Store(dp, id, rec) ==
    [i \in DOMAIN dp \cup {id} |-> IF i = id THEN rec ELSE dp[i]]

\* download_progress[id][key] = value (id is a key of dp on every path here:
\* entries are never deleted)
SetField(dp, id, key, value) ==
    [dp EXCEPT ![id] = [@ EXCEPT ![key] = value]]

----------------------------------------------------------------------------
(* Raw progress events of yt-dlp and progress_hook (lines 314-356) *)

NoneInt == -1

Event(status, downloaded, total, estimate, eta) ==
    [status |-> status, downloaded_bytes |-> downloaded, total_bytes |-> total,
     total_bytes_estimate |-> estimate, eta |-> eta]

\* total_bytes 0 stands for an absent or None total_bytes; an estimate of
\* NoneInt stands for a total_bytes_estimate key whose value is None.
\* The byte counts are chosen so that the percentage has no digits after the
\* first decimal, where round(percent, 1) changes nothing.
Events ==
    { Event("downloading", 0, 0, 0, 0),
      Event("downloading", 1, 2, 0, 5),
      Event("downloading", 2, 2, 0, 0),
      Event("downloading", 3, 0, 2, 5),
      Event("downloading", 1, 0, NoneInt, 0),
      Event("finished", 2, 2, 0, 0),
      Event("error", 0, 0, 0, 0),
      Event(None, 0, 0, 0, 0) }

\* line 318: d.get("total_bytes") or d.get("total_bytes_estimate", 0)
Total(d) == IF d.total_bytes # 0 THEN d.total_bytes ELSE d.total_bytes_estimate

\* lines 320-323, 340
Percent(d) ==
    IF Total(d) > 0 THEN (d.downloaded_bytes * 100) \div Total(d) ELSE 0

\* line 336
EtaStr(eta) == IF eta # 0 THEN "5s" ELSE "Unknown"

\* the body of the try block raises: d["status"] on an event without status
\* (KeyError), total > 0 on a None total (TypeError)
HookRaises(d) ==
    \/ d.status = None
    \/ d.status = "downloading" /\ Total(d) = NoneInt

progress_hook(dp, id, d) ==
    IF HookRaises(d) THEN dp
    ELSE IF d.status = "downloading"
         THEN Store(dp, id, Record("downloading", Percent(d), EtaStr(d.eta)))
    ELSE IF d.status = "finished"
         THEN Store(dp, id, Record("processing", 100, "Processing..."))
    ELSE dp

----------------------------------------------------------------------------
(* The external encoder.  An ffmpeg run either exits 0 having written its   *)
(* output, or exits non-zero, with nothing written or with a partial       *)
(* output file left behind.  It cannot succeed without its input, nor      *)
(* write over the file it reads.                                           *)

Outcomes(dsk, input, output) ==
    IF input \in dsk /\ input # output
    THEN {"ok", "fail", "fail_partial"}
    ELSE {"fail"}

RunEncoder(dsk, o, output) ==
    IF o \in {"ok", "fail_partial"} THEN dsk \cup {output} ELSE dsk

\* os.remove(p) guarded by os.path.exists(p)
RemoveIfExists(dsk, p) == dsk \ {p}

----------------------------------------------------------------------------
(* The filename of a /delete request (line 548): a string, kept as the     *)
(* characters in front of a basename and the basename.  The basename is    *)
(* the name of a file of the media folder, or NoPath for no characters at  *)
(* all; the names of the files this program writes hold no "/", "\\" or     *)
(* "..", so these can only be among the characters in front.               *)

Filename(prefix, base) == [prefix |-> prefix, base |-> base]

\* request.json has no "filename" (None), or has the empty string
NoFilename == Filename(<<>>, NoPath)

\* what a client may put in front of a name
Prefixes == {<<>>, <<"/">>, <<"\\">>, <<"..">>, <<"..", "/">>, <<"..", "\\">>}

\* sub in filename
In(sub, f) == \E i \in DOMAIN f.prefix : f.prefix[i] = sub

\* line 549: not filename
Falsy(f) == f.prefix = <<>> /\ f.base = NoPath

\* line 553 without the test for the backslash
InvalidFilename_no_backslash(f) == In("..", f) \/ In("/", f)

\* line 553
InvalidFilename(f) == In("..", f) \/ In("/", f) \/ In("\\", f)

\* line 556: os.path.join(MEDIA_FOLDER, filename); with characters in front
\* of the name the result is no file of the media folder
FilePath(f) == IF f.prefix = <<>> THEN f.base ELSE NoPath

NoDeleteResponse == [kind |-> "none", error |-> ""]

----------------------------------------------------------------------------
InitState ==
    /\ now = 1
    /\ download_progress = [i \in {} |-> StartingRecord]
    /\ disk = {}
    /\ dbfile = DbAbsent
    /\ pc = [j \in Jobs |-> "idle"]
    /\ download_id = [j \in Jobs |-> NoId]
    /\ filename = [j \in Jobs |-> NoPath]
    /\ temp_file = [j \in Jobs |-> NoPath]
    /\ final_file = [j \in Jobs |-> NoPath]
    /\ db = [j \in Jobs |-> <<>>]
    /\ nevents = [j \in Jobs |-> 0]
    /\ stage = [j \in Jobs |-> "none"]
    /\ invoked = [j \in Jobs |-> <<>>]
    /\ response = [j \in Jobs |-> NoResponse]
    /\ pollResult = [download_id |-> NoId, body |-> UnknownRecord]
    /\ all_formats = <<>>
    /\ formats = <<>>
    /\ apc = "idle"
    /\ delete_pc = "idle"
    /\ delete_filename = NoFilename
    /\ delete_db = <<>>
    /\ delete_response = NoDeleteResponse

\* one download call, with any request
Init ==
    /\ InitState
    /\ \E r \in Requests : req = [j \in Jobs |-> IF j = 1 THEN r ELSE NoRequest]

\* two download calls
InitJobs ==
    /\ InitState
    /\ req \in [Jobs -> ConcurrentRequests]

\* the second hand of the clock moves
Tick ==
    /\ now < MaxTime
    /\ now' = now + 1
    /\ UNCHANGED <<download_progress, disk, dbfile, jobVars, pollResult,
                   analyzeVars, deleteVars>>

----------------------------------------------------------------------------
(* download() (lines 288-529), one action per statement group *)

\* line 415 without its last disjunct
NeedsPostProcessing_without_compress(r) ==
    r.trim \/ r.convert_to # None

\* line 415
NeedsPostProcessing(r) ==
    r.trim \/ r.convert_to # None \/ (r.compress /\ ~r.extract_audio)

\* line 467 without the test of extract_audio
NeedsAutoCompress_audio_too(r, dsk, f) ==
    r.compress /\ f \in dsk

\* line 467
NeedsAutoCompress(r, dsk, f) ==
    r.compress /\ ~r.extract_audio /\ f \in dsk

\* the branch of lines 442-464 with compression tested before conversion
StageAfterTrim_compress_first(r) ==
    IF r.compress /\ ~r.extract_audio THEN "compress"
    ELSE IF r.convert_to # None THEN "convert"
    ELSE "complete_status"

\* lines 442-464: the branch taken once trimming is over
StageAfterTrim(r) ==
    IF r.convert_to # None THEN "convert"
    ELSE IF r.compress /\ ~r.extract_audio THEN "compress"
    ELSE "complete_status"

\* lines 292-310: read the request (req[j]), take the timestamp as
\* download_id and create the progress record
Start(j) ==
    /\ pc[j] = "idle"
    /\ download_id' = [download_id EXCEPT ![j] = now]
    /\ download_progress' = Store(download_progress, now, StartingRecord)
    /\ pc' = [pc EXCEPT ![j] = "fetch"]
    /\ UNCHANGED <<now, disk, dbfile, req, filename, temp_file, final_file,
                   db, nevents, stage, invoked, response, pollResult, analyzeVars,
                   deleteVars>>

\* lines 292-293: the request has no JSON body, data.get raises before a
\* download_id exists
BadRequest(j) ==
    /\ pc[j] = "idle"
    /\ pc' = [pc EXCEPT ![j] = "except_other"]
    /\ UNCHANGED <<now, download_progress, disk, dbfile, req, download_id,
                   filename, temp_file, final_file, db, nevents, stage, invoked,
                   response, pollResult, analyzeVars, deleteVars>>

\* line 400: yt-dlp calls progress_hook with one raw event
FetchEvent(j) ==
    /\ pc[j] = "fetch"
    /\ nevents[j] < MaxEvents
    /\ \E d \in Events :
          download_progress' = progress_hook(download_progress, download_id[j], d)
    /\ nevents' = [nevents EXCEPT ![j] = @ + 1]
    /\ UNCHANGED <<now, disk, dbfile, pc, req, download_id, filename,
                   temp_file, final_file, db, stage, invoked, response, pollResult,
                   analyzeVars, deleteVars>>

\* line 400: extract_info raises (DownloadError or any other exception)
FetchFail(j) ==
    /\ pc[j] = "fetch"
    /\ pc' = [pc EXCEPT ![j] = "except_other"]
    /\ UNCHANGED <<now, download_progress, disk, dbfile, req, download_id,
                   filename, temp_file, final_file, db, nevents, stage, invoked,
                   response, pollResult, analyzeVars, deleteVars>>

\* lines 400-415, 467: the download returns, its file is on disk; filename
\* and final_file are set and the post-processing branch is chosen
FetchDone(j) ==
    /\ pc[j] = "fetch"
    /\ LET f == Path(download_id[j], j, "",
                     IF req[j].extract_audio THEN "mp3" ELSE "mp4")
       IN /\ disk' = disk \cup {f}
          /\ filename' = [filename EXCEPT ![j] = f]
          /\ final_file' = [final_file EXCEPT ![j] = f]
          /\ pc' = [pc EXCEPT ![j] =
                      IF NeedsPostProcessing(req[j]) THEN "post_status"
                      ELSE IF NeedsAutoCompress(req[j], disk', f)
                           THEN "auto_status"
                      ELSE "complete_status"]
    /\ UNCHANGED <<now, download_progress, dbfile, req, download_id,
                   temp_file, db, nevents, stage, invoked, response, pollResult,
                   analyzeVars, deleteVars>>

\* line 416 (post-processing) and line 468 (auto-compress)
SetStatus(j) ==
    /\ pc[j] \in {"post_status", "auto_status"}
    /\ download_progress' =
          SetField(download_progress, download_id[j], "status",
                   IF pc[j] = "post_status" THEN "post-processing"
                   ELSE "compressing")
    /\ pc' = [pc EXCEPT ![j] =
                IF pc[j] = "post_status" THEN "post_eta" ELSE "auto_eta"]
    /\ UNCHANGED <<now, disk, dbfile, req, download_id, filename, temp_file,
                   final_file, db, nevents, stage, invoked, response, pollResult,
                   analyzeVars, deleteVars>>

\* lines 417-424, 442-464 (post-processing) and lines 469-472 (auto-compress):
\* the eta label, temp_file = filename, and the first stage is chosen
SetEta(j) ==
    /\ pc[j] \in {"post_eta", "auto_eta"}
    /\ download_progress' =
          SetField(download_progress, download_id[j], "eta",
                   IF pc[j] = "post_eta" THEN "Post-processing..."
                   ELSE "Compressing...")
    /\ temp_file' = [temp_file EXCEPT ![j] = filename[j]]
    /\ LET next == IF pc[j] = "auto_eta" THEN "compress"
                   ELSE IF req[j].trim THEN "trim"
                   ELSE StageAfterTrim(req[j])
       IN /\ pc' = [pc EXCEPT ![j] = next]
          /\ final_file' = [final_file EXCEPT ![j] =
                              IF next = "complete_status" THEN filename[j]
                              ELSE @]
    /\ UNCHANGED <<now, disk, dbfile, req, download_id, filename, db,
                   nevents, stage, invoked, response, pollResult, analyzeVars,
                   deleteVars>>

\* lines 424-436: the trim encoder runs (check=True)
Trim(j) ==
    /\ pc[j] = "trim"
    /\ invoked' = [invoked EXCEPT ![j] = Append(@, "trim")]
    /\ LET trim_output == WithSuffix(filename[j], "_trimmed")
       IN \E o \in Outcomes(disk, temp_file[j], trim_output) :
            /\ disk' = RunEncoder(disk, o, trim_output)
            /\ IF o = "ok"
               THEN /\ pc' = [pc EXCEPT ![j] = "trim_remove"]
                    /\ UNCHANGED stage
               ELSE /\ pc' = [pc EXCEPT ![j] = "except_ffmpeg"]
                    /\ stage' = [stage EXCEPT ![j] = "trim"]
    /\ UNCHANGED <<now, download_progress, dbfile, req, download_id,
                   filename, temp_file, final_file, db, nevents, response,
                   pollResult, analyzeVars, deleteVars>>

\* lines 438-440, 442-464: the trim input is removed, temp_file moves on and
\* the next stage is chosen
TrimRemove(j) ==
    /\ pc[j] = "trim_remove"
    /\ disk' = RemoveIfExists(disk, temp_file[j])
    /\ temp_file' = [temp_file EXCEPT ![j] = WithSuffix(filename[j], "_trimmed")]
    /\ pc' = [pc EXCEPT ![j] = StageAfterTrim(req[j])]
    /\ final_file' = [final_file EXCEPT ![j] =
                        IF StageAfterTrim(req[j]) = "complete_status"
                        THEN temp_file'[j] ELSE @]
    /\ UNCHANGED <<now, download_progress, dbfile, req, download_id,
                   filename, db, nevents, stage, invoked, response, pollResult,
                   analyzeVars, deleteVars>>

\* lines 443-450: final_file is named and the convert encoder runs (check=True)
Convert(j) ==
    /\ pc[j] = "convert"
    /\ invoked' = [invoked EXCEPT ![j] = Append(@, "convert")]
    /\ LET out == WithExt(filename[j], req[j].convert_to)
       IN /\ final_file' = [final_file EXCEPT ![j] = out]
          /\ \E o \in Outcomes(disk, temp_file[j], out) :
                /\ disk' = RunEncoder(disk, o, out)
                /\ IF o = "ok"
                   THEN /\ pc' = [pc EXCEPT ![j] = "convert_remove"]
                        /\ UNCHANGED stage
                   ELSE /\ pc' = [pc EXCEPT ![j] = "except_ffmpeg"]
                        /\ stage' = [stage EXCEPT ![j] = "convert"]
    /\ UNCHANGED <<now, download_progress, dbfile, req, download_id,
                   filename, temp_file, db, nevents, response, pollResult,
                   analyzeVars, deleteVars>>

\* lines 451-452: the convert input is removed unless it is the download
ConvertRemove(j) ==
    /\ pc[j] = "convert_remove"
    /\ disk' = IF temp_file[j] # filename[j]
               THEN RemoveIfExists(disk, temp_file[j]) ELSE disk
    /\ pc' = [pc EXCEPT ![j] = "complete_status"]
    /\ UNCHANGED <<now, download_progress, dbfile, req, download_id,
                   filename, temp_file, final_file, db, nevents, stage, invoked,
                   response, pollResult, analyzeVars, deleteVars>>

\* Compress with a fallback that reports the compressed path instead of the
\* pre-compression file
Compress_reports_output(j) ==
    /\ pc[j] = "compress"
    /\ invoked' = [invoked EXCEPT ![j] = Append(@, "compress")]
    /\ LET compressed_file == WithSuffix(filename[j], "_compressed")
       IN \E o \in Outcomes(disk, temp_file[j], compressed_file) :
            /\ disk' = RunEncoder(disk, o, compressed_file)
            /\ IF o = "ok"
               THEN /\ pc' = [pc EXCEPT ![j] = "compress_remove"]
                    /\ UNCHANGED <<stage, final_file>>
               ELSE /\ pc' = [pc EXCEPT ![j] = "complete_status"]
                    /\ stage' = [stage EXCEPT ![j] = "compress"]
                    /\ final_file' = [final_file EXCEPT ![j] = compressed_file]
    /\ UNCHANGED <<now, download_progress, dbfile, req, download_id,
                   filename, temp_file, db, nevents, response, pollResult,
                   analyzeVars, deleteVars>>

\* lines 454-462 and 471-478 with compress_video (lines 56-116): the
\* compress encoder runs; compress_video catches every exception and
\* returns False, and the caller then keeps its input as final_file
Compress(j) ==
    /\ pc[j] = "compress"
    /\ invoked' = [invoked EXCEPT ![j] = Append(@, "compress")]
    /\ LET compressed_file == WithSuffix(filename[j], "_compressed")
       IN \E o \in Outcomes(disk, temp_file[j], compressed_file) :
            /\ disk' = RunEncoder(disk, o, compressed_file)
            /\ IF o = "ok"
               THEN /\ pc' = [pc EXCEPT ![j] = "compress_remove"]
                    /\ UNCHANGED <<stage, final_file>>
               ELSE /\ pc' = [pc EXCEPT ![j] = "complete_status"]
                    /\ stage' = [stage EXCEPT ![j] = "compress"]
                    /\ final_file' = [final_file EXCEPT ![j] = temp_file[j]]
    /\ UNCHANGED <<now, download_progress, dbfile, req, download_id,
                   filename, temp_file, db, nevents, response, pollResult,
                   analyzeVars, deleteVars>>

\* lines 458-460 and 475-476: the compress input is removed (temp_file is
\* filename on the auto-compress path, which names it filename)
CompressRemove(j) ==
    /\ pc[j] = "compress_remove"
    /\ disk' = RemoveIfExists(disk, temp_file[j])
    /\ final_file' = [final_file EXCEPT ![j] =
                        WithSuffix(filename[j], "_compressed")]
    /\ pc' = [pc EXCEPT ![j] = "complete_status"]
    /\ UNCHANGED <<now, download_progress, dbfile, req, download_id,
                   filename, temp_file, db, nevents, stage, invoked, response,
                   pollResult, analyzeVars, deleteVars>>

\* line 483
CompleteStatus(j) ==
    /\ pc[j] = "complete_status"
    /\ download_progress' =
          SetField(download_progress, download_id[j], "status", "complete")
    /\ pc' = [pc EXCEPT ![j] = "complete_percent"]
    /\ UNCHANGED <<now, disk, dbfile, req, download_id, filename, temp_file,
                   final_file, db, nevents, stage, invoked, response, pollResult,
                   analyzeVars, deleteVars>>

\* line 484
CompletePercent(j) ==
    /\ pc[j] = "complete_percent"
    /\ download_progress' =
          SetField(download_progress, download_id[j], "percent", 100)
    /\ pc' = [pc EXCEPT ![j] = "complete_eta"]
    /\ UNCHANGED <<now, disk, dbfile, req, download_id, filename, temp_file,
                   final_file, db, nevents, stage, invoked, response, pollResult,
                   analyzeVars, deleteVars>>

\* line 485
CompleteEta(j) ==
    /\ pc[j] = "complete_eta"
    /\ download_progress' =
          SetField(download_progress, download_id[j], "eta", "Done")
    /\ pc' = [pc EXCEPT ![j] = "load_db"]
    /\ UNCHANGED <<now, disk, dbfile, req, download_id, filename, temp_file,
                   final_file, db, nevents, stage, invoked, response, pollResult,
                   analyzeVars, deleteVars>>

\* line 488 with load_db (lines 24-28): json.load raises on a file another
\* handler has opened for writing and not yet written
LoadDb(j) ==
    /\ pc[j] = "load_db"
    /\ IF dbfile.state = "empty"
       THEN /\ pc' = [pc EXCEPT ![j] = "except_other"]
            /\ UNCHANGED db
       ELSE /\ db' = [db EXCEPT ![j] = dbfile.items]
            /\ pc' = [pc EXCEPT ![j] = "save_open"]
    /\ UNCHANGED <<now, download_progress, disk, dbfile, req, download_id,
                   filename, temp_file, final_file, nevents, stage, invoked, response,
                   pollResult, analyzeVars, deleteVars>>

\* lines 489-499 with save_db line 32: the entry is appended to the local
\* list and db.json is opened for writing, which empties it
SaveOpen(j) ==
    /\ pc[j] = "save_open"
    /\ db' = [db EXCEPT ![j] = Append(@, final_file[j])]
    /\ dbfile' = DbEmpty
    /\ pc' = [pc EXCEPT ![j] = "save_dump"]
    /\ UNCHANGED <<now, download_progress, disk, req, download_id, filename,
                   temp_file, final_file, nevents, stage, invoked, response,
                   pollResult, analyzeVars, deleteVars>>

\* save_db line 33: the list is written
SaveDump(j) ==
    /\ pc[j] = "save_dump"
    /\ dbfile' = DbJson(db[j])
    /\ pc' = [pc EXCEPT ![j] = "respond"]
    /\ UNCHANGED <<now, download_progress, disk, req, download_id, filename,
                   temp_file, final_file, db, nevents, stage, invoked, response,
                   pollResult, analyzeVars, deleteVars>>

\* lines 501-509: the success response
Respond(j) ==
    /\ pc[j] = "respond"
    /\ response' = [response EXCEPT ![j] =
                      [kind |-> "success", path |-> final_file[j]]]
    /\ pc' = [pc EXCEPT ![j] = "done"]
    /\ UNCHANGED <<now, download_progress, disk, dbfile, req, download_id,
                   filename, temp_file, final_file, db, nevents, stage, invoked,
                   pollResult, analyzeVars, deleteVars>>

\* the except branches without their write of status "error"
MarkError_skipped(dp, id) == dp

\* lines 515-516 and 526-527: the guarded write of status "error"
MarkError(dp, id) ==
    IF id # NoId /\ id \in DOMAIN dp
    THEN SetField(dp, id, "status", "error")
    ELSE dp

\* lines 511-516: except subprocess.CalledProcessError
ExceptCalledProcessError(j) ==
    /\ pc[j] = "except_ffmpeg"
    /\ download_progress' = MarkError(download_progress, download_id[j])
    /\ pc' = [pc EXCEPT ![j] = "return_ffmpeg_error"]
    /\ UNCHANGED <<now, disk, dbfile, req, download_id, filename, temp_file,
                   final_file, db, nevents, stage, invoked, response, pollResult,
                   analyzeVars, deleteVars>>

\* lines 520-527: except Exception
ExceptException(j) ==
    /\ pc[j] = "except_other"
    /\ download_progress' = MarkError(download_progress, download_id[j])
    /\ pc' = [pc EXCEPT ![j] = "return_error"]
    /\ UNCHANGED <<now, disk, dbfile, req, download_id, filename, temp_file,
                   final_file, db, nevents, stage, invoked, response, pollResult,
                   analyzeVars, deleteVars>>

\* lines 518 and 529: the error response
ReturnError(j) ==
    /\ pc[j] \in {"return_ffmpeg_error", "return_error"}
    /\ response' = [response EXCEPT ![j] =
                      [kind |-> IF pc[j] = "return_ffmpeg_error"
                                THEN "ffmpeg_error" ELSE "error",
                       path |-> NoPath]]
    /\ pc' = [pc EXCEPT ![j] = "done"]
    /\ UNCHANGED <<now, download_progress, disk, dbfile, req, download_id,
                   filename, temp_file, final_file, db, nevents, stage, invoked,
                   pollResult, analyzeVars, deleteVars>>

Download(j) ==
    \/ Start(j) \/ BadRequest(j)
    \/ FetchEvent(j) \/ FetchFail(j) \/ FetchDone(j)
    \/ SetStatus(j) \/ SetEta(j)
    \/ Trim(j) \/ TrimRemove(j)
    \/ Convert(j) \/ ConvertRemove(j)
    \/ Compress(j) \/ CompressRemove(j)
    \/ CompleteStatus(j) \/ CompletePercent(j) \/ CompleteEta(j)
    \/ LoadDb(j) \/ SaveOpen(j) \/ SaveDump(j) \/ Respond(j)
    \/ ExceptCalledProcessError(j) \/ ExceptException(j) \/ ReturnError(j)

----------------------------------------------------------------------------
(* progress() (lines 532-537) *)

\* the job ids a poller may ask for
PollIds == 1 .. MaxTime

\* progress() answering an unknown id with a fresh "starting" record
progress_unknown_as_starting(dp, id) ==
    IF id \in DOMAIN dp THEN dp[id] ELSE StartingRecord

progress(dp, id) == IF id \in DOMAIN dp THEN dp[id] ELSE UnknownRecord

Poll(id) ==
    /\ pollResult' = [download_id |-> id, body |-> progress(download_progress, id)]
    /\ UNCHANGED <<now, download_progress, disk, dbfile, jobVars, analyzeVars,
                   deleteVars>>

----------------------------------------------------------------------------
(* delete_file() (lines 545-571) *)

\* the filenames a client may send while the media folder holds dsk: a name
\* it holds or no name, and any characters in front
DeleteFilenames(dsk) ==
    {Filename(prefix, base) : prefix \in Prefixes, base \in dsk \cup {NoPath}}

\* lines 548-556: the filename is read and checked
DeleteRequest ==
    /\ delete_pc = "idle"
    /\ \E f \in DeleteFilenames(disk) :
          /\ delete_filename' = f
          /\ IF Falsy(f)
             THEN /\ delete_response' =
                        [kind |-> "error", error |-> "Filename is required"]
                  /\ delete_pc' = "done"
             ELSE IF InvalidFilename(f)
             THEN /\ delete_response' =
                        [kind |-> "error", error |-> "Invalid filename"]
                  /\ delete_pc' = "done"
             ELSE /\ delete_pc' = "remove"
                  /\ UNCHANGED delete_response
    /\ UNCHANGED <<now, download_progress, disk, dbfile, jobVars, pollResult,
                   analyzeVars, delete_db>>

\* lines 548, 569-571: the request has no JSON body, request.json.get raises
DeleteBadRequest ==
    /\ delete_pc = "idle"
    /\ delete_pc' = "except"
    /\ UNCHANGED <<now, download_progress, disk, dbfile, jobVars, pollResult,
                   analyzeVars, delete_filename, delete_db, delete_response>>

\* lines 559-560
DeleteRemove ==
    /\ delete_pc = "remove"
    /\ disk' = RemoveIfExists(disk, FilePath(delete_filename))
    /\ delete_pc' = "load_db"
    /\ UNCHANGED <<now, download_progress, dbfile, jobVars, pollResult,
                   analyzeVars, delete_filename, delete_db, delete_response>>

\* line 564 with load_db (lines 24-28)
DeleteLoadDb ==
    /\ delete_pc = "load_db"
    /\ IF dbfile.state = "empty"
       THEN /\ delete_pc' = "except"
            /\ UNCHANGED delete_db
       ELSE /\ delete_db' = dbfile.items
            /\ delete_pc' = "save_open"
    /\ UNCHANGED <<now, download_progress, disk, dbfile, jobVars, pollResult,
                   analyzeVars, delete_filename, delete_response>>

\* line 565: the entries of db whose filename is not fname, in order
RECURSIVE WithoutFilename(_, _)
WithoutFilename(items, fname) ==
    IF items = <<>> THEN <<>>
    ELSE (IF Filename(<<>>, Head(items)) # fname THEN <<Head(items)>> ELSE <<>>)
         \o WithoutFilename(Tail(items), fname)

\* lines 565-566 with save_db line 32
DeleteSaveOpen ==
    /\ delete_pc = "save_open"
    /\ delete_db' = WithoutFilename(delete_db, delete_filename)
    /\ dbfile' = DbEmpty
    /\ delete_pc' = "save_dump"
    /\ UNCHANGED <<now, download_progress, disk, jobVars, pollResult,
                   analyzeVars, delete_filename, delete_response>>

\* save_db line 33 and line 568: the list is written, the call succeeds
DeleteSaveDump ==
    /\ delete_pc = "save_dump"
    /\ dbfile' = DbJson(delete_db)
    /\ delete_response' = [kind |-> "success", error |-> ""]
    /\ delete_pc' = "done"
    /\ UNCHANGED <<now, download_progress, disk, jobVars, pollResult,
                   analyzeVars, delete_filename, delete_db>>

\* lines 569-571: except Exception
DeleteExcept ==
    /\ delete_pc = "except"
    /\ delete_response' = [kind |-> "error", error |-> "exception"]
    /\ delete_pc' = "done"
    /\ UNCHANGED <<now, download_progress, disk, dbfile, jobVars, pollResult,
                   analyzeVars, delete_filename, delete_db>>

delete_file ==
    \/ DeleteRequest \/ DeleteBadRequest \/ DeleteRemove \/ DeleteLoadDb
    \/ DeleteSaveOpen \/ DeleteSaveDump \/ DeleteExcept

----------------------------------------------------------------------------
(* analyze() (lines 124-274): the catalog built from info["formats"].       *)
(* A format is [vcodec, acodec, height, fps, abr]; its format_id is its     *)
(* position in the list.  height 0 stands for a missing or None height,     *)
(* abr 0 for a missing or None abr; fps is "absent" (no key), "None" (the   *)
(* key is there with value None) or the number as text.                     *)

Format(vcodec, acodec, height, fps, abr) ==
    [vcodec |-> vcodec, acodec |-> acodec, height |-> height, fps |-> fps,
     abr |-> abr]

FormatValues ==
    { Format("avc1", "none", 1080, "30", 0),
      Format("avc1", "none", 1080, "None", 0),
      Format("vp9", "none", 1080, "absent", 0),
      Format("vp9", "none", 720, "60", 0),
      Format("avc1", "mp4a", 720, "30", 0),
      Format("avc1", "none", 0, "30", 0),
      Format("none", "none", 0, "absent", 0),
      Format("none", "mp4a", 0, "absent", 0),
      Format("none", "opus", 0, "absent", 128) }

\* every list of at most n formats
RECURSIVE FormatLists(_)
FormatLists(n) ==
    IF n = 0 THEN {<<>>}
    ELSE LET shorter == FormatLists(n - 1)
         IN shorter \cup
            {Append(l, f) : l \in {x \in shorter : Len(x) = n - 1},
                            f \in FormatValues}

\* line 151
IsVideo(f) == f.vcodec # "none" /\ f.height # 0

\* line 157
IsAudio(f) == f.acodec # "none" /\ f.vcodec = "none"

\* a list comprehension over all_formats: the positions 1..n that are in
\* keep, in list order
RECURSIVE Select(_, _, _)
Select(keep, i, n) ==
    IF i > n THEN <<>>
    ELSE (IF i \in keep THEN <<i>> ELSE <<>>) \o Select(keep, i + 1, n)

\* lines 150-152
VideoFormats(fs) == Select({i \in 1 .. Len(fs) : IsVideo(fs[i])}, 1, Len(fs))

\* lines 154-158
AudioFormats(fs) == Select({i \in 1 .. Len(fs) : IsAudio(fs[i])}, 1, Len(fs))

\* line 163 with min() in the place of max()
RECURSIVE MaxAbr_lowest(_, _, _)
MaxAbr_lowest(fs, ids, best) ==
    IF ids = <<>> THEN best
    ELSE MaxAbr_lowest(fs, Tail(ids),
                       IF fs[Head(ids)].abr < fs[best].abr THEN Head(ids)
                       ELSE best)

\* line 163: max() returns the first of the maximal elements
RECURSIVE MaxAbr(_, _, _)
MaxAbr(fs, ids, best) ==
    IF ids = <<>> THEN best
    ELSE MaxAbr(fs, Tail(ids),
                IF fs[Head(ids)].abr > fs[best].abr THEN Head(ids) ELSE best)

\* lines 161-163: 0 stands for best_audio = None
BestAudio(fs) ==
    LET audio == AudioFormats(fs)
    IN IF audio = <<>> THEN 0 ELSE MaxAbr(fs, Tail(audio), Head(audio))

\* line 166 without reverse=True: a stable sort by ascending height
RECURSIVE InsertByHeight_ascending(_, _, _)
InsertByHeight_ascending(fs, sorted, x) ==
    IF sorted = <<>> THEN <<x>>
    ELSE IF fs[Head(sorted)].height <= fs[x].height
         THEN <<Head(sorted)>> \o InsertByHeight_ascending(fs, Tail(sorted), x)
         ELSE <<x>> \o sorted

\* line 166: list.sort(key=height, reverse=True) is stable; x goes behind
\* every element whose height is at least its own
RECURSIVE InsertByHeight(_, _, _)
InsertByHeight(fs, sorted, x) ==
    IF sorted = <<>> THEN <<x>>
    ELSE IF fs[Head(sorted)].height >= fs[x].height
         THEN <<Head(sorted)>> \o InsertByHeight(fs, Tail(sorted), x)
         ELSE <<x>> \o sorted

RECURSIVE SortByHeight(_, _, _)
SortByHeight(fs, ids, sorted) ==
    IF ids = <<>> THEN sorted
    ELSE SortByHeight(fs, Tail(ids), InsertByHeight(fs, sorted, Head(ids)))

\* line 170: f.get("fps", 30) gives 30 only when the key is absent
GetFps(f) == IF f.fps = "absent" THEN "30" ELSE f.fps

\* line 175: f"{height}_{fps}"
FormatKey(f) == <<f.height, GetFps(f)>>

\* lines 181-187
CodecName(vcodec) ==
    IF vcodec = "vp9" THEN "VP9"
    ELSE IF vcodec = "av01" THEN "AV1"
    ELSE "H.264"

\* a format_id string: "best", "{a}" or "{a}+{b}"
FormatId(kind, a, b) == [kind |-> kind, a |-> a, b |-> b]

\* lines 189-194
FormatString(id, best_audio) ==
    IF best_audio # 0 THEN FormatId("plus", id, best_audio)
    ELSE FormatId("id", id, 0)

\* lines 203-215: the resolution label is <<height, "p">>
VideoEntry(fs, id, best_audio) ==
    [format_id |-> FormatString(id, best_audio),
     resolution |-> <<fs[id].height, "p">>,
     fps |-> GetFps(fs[id]),
     type |-> "video",
     codec |-> CodecName(fs[id].vcodec)]

\* lines 222-236
AudioEntry(fs, best_audio) ==
    [format_id |-> FormatId("id", best_audio, 0),
     resolution |-> <<0, "Audio Only">>,
     fps |-> "absent",
     type |-> "audio",
     codec |-> fs[best_audio].acodec]

\* lines 240-250
FallbackEntry ==
    [format_id |-> FormatId("best", 0, 0),
     resolution |-> <<0, "Best Available">>,
     fps |-> "absent",
     type |-> "video",
     codec |-> "Unknown"]

\* lines 168-215: the loop over the sorted video formats
RECURSIVE VideoEntries(_, _, _, _)
VideoEntries(fs, ids, seen_combinations, best_audio) ==
    IF ids = <<>> THEN <<>>
    ELSE LET f == fs[Head(ids)]
         IN IF f.height # 0 /\ FormatKey(f) \notin seen_combinations
            THEN <<VideoEntry(fs, Head(ids), best_audio)>> \o
                 VideoEntries(fs, Tail(ids),
                              seen_combinations \cup {FormatKey(f)}, best_audio)
            ELSE VideoEntries(fs, Tail(ids), seen_combinations, best_audio)

\* lines 143-250
BuildFormats(fs) ==
    LET best_audio == BestAudio(fs)
        video_formats == SortByHeight(fs, VideoFormats(fs), <<>>)
        found == VideoEntries(fs, video_formats, {}, best_audio) \o
                 (IF best_audio # 0 THEN <<AudioEntry(fs, best_audio)>>
                  ELSE <<>>)
    IN IF found = <<>> THEN <<FallbackEntry>> ELSE found

\* lines 140-147: yt-dlp returns the format list
InitAnalyze ==
    /\ InitState
    /\ req = [j \in Jobs |-> NoRequest]

Extract ==
    /\ apc = "idle"
    /\ \E fs \in FormatLists(MaxFormats) : all_formats' = fs
    /\ apc' = "extracted"
    /\ UNCHANGED <<now, download_progress, disk, dbfile, jobVars, pollResult,
                   formats, deleteVars>>

\* lines 143-259: the catalog is built and returned
Analyze ==
    /\ apc = "extracted"
    /\ formats' = BuildFormats(all_formats)
    /\ apc' = "done"
    /\ UNCHANGED <<now, download_progress, disk, dbfile, jobVars, pollResult,
                   all_formats, deleteVars>>

----------------------------------------------------------------------------
(* Specifications *)

\* one download call and its pollers
Next ==
    \/ Download(1)
    \/ Tick
    \/ \E id \in PollIds : Poll(id)

Spec == Init /\ [][Next]_vars

\* two concurrent download calls
NextJobs ==
    \/ \E j \in Jobs : Download(j)
    \/ Tick

SpecJobs == InitJobs /\ [][NextJobs]_vars

\* one analyze call
NextAnalyze == Extract \/ Analyze

SpecAnalyze == InitAnalyze /\ [][NextAnalyze]_vars

\* one download call and one delete_file call
InitDelete ==
    /\ InitState
    /\ \E r \in ConcurrentRequests :
          req = [j \in Jobs |-> IF j = 1 THEN r ELSE NoRequest]

NextDelete == Download(1) \/ delete_file

SpecDelete == InitDelete /\ [][NextDelete]_vars

\* two download calls made within the same second, the default one and one
\* that trims and converts, each on its own thread that keeps running: a
\* call that can take a step takes one, so its fetch and its encoder runs
\* come to an end
InitJobsLive ==
    /\ InitState
    /\ req = [j \in Jobs |-> IF j = 1 THEN DefaultRequest
                                      ELSE TrimConvertRequest]

NextJobsLive == \E j \in Jobs : Download(j)

SpecJobsLive ==
    /\ InitJobsLive
    /\ [][NextJobsLive]_vars
    /\ \A j \in Jobs : WF_vars(Download(j))

----------------------------------------------------------------------------
(* Properties *)

\* the files in the media folder that download call j fetched or created
JobFiles(j) == {p \in disk : p.title = j}

\* call j returns in this step
Returns(j) == pc[j] # "done" /\ pc'[j] = "done"

\* C1: when a download call has returned success, the only file of the call
\* left on disk is the reported final path: the download and every
\* intermediate other than the final path are gone.
C1_OnlyFinalRemains ==
    \A j \in Jobs :
        pc[j] = "done" /\ response[j].kind = "success"
            => JobFiles(j) = {response[j].path}

\* C2: when the encoder of the Trim or of the Convert stage has failed, the
\* call returns an error and exactly one file of the call is left, the input
\* of the failing stage.
C2_FailedStageLeavesItsInput ==
    \A j \in Jobs :
        pc[j] = "done" /\ stage[j] \in {"trim", "convert"}
            => /\ response[j].kind = "ffmpeg_error"
               /\ JobFiles(j) = {temp_file[j]}

\* C3: a call whose Compress encoder failed returns success, reports the
\* pre-compression file (temp_file) as final path, that file is on disk, and
\* the progress record of its id has phase complete when it returns.
C3_CompressFallback ==
    [][\A j \in Jobs :
          Returns(j) /\ stage[j] = "compress"
              => /\ response'[j].kind = "success"
                 /\ response'[j].path = temp_file[j]
                 /\ temp_file[j] \in disk'
                 /\ download_progress'[download_id[j]].status = "complete"]_vars

\* C4: between two consecutive states in which a record has phase
\* downloading its percent does not decrease.
C4_PercentMonotonic ==
    [][\A id \in DOMAIN download_progress :
          /\ download_progress[id].status = "downloading"
          /\ download_progress'[id].status = "downloading"
          => download_progress'[id].percent >= download_progress[id].percent]_vars

\* C5: when a call that created its progress record returns an error, the
\* record of its id has phase error at that moment.
C5_ErrorReturnLeavesPhaseError ==
    [][\A j \in Jobs :
          Returns(j) /\ response'[j].kind # "success" /\ download_id[j] # NoId
              => download_progress'[download_id[j]].status = "error"]_vars

\* C6: when a call returns success, the record of its id has phase complete
\* and percent 100 at that moment.
C6_SuccessReturnLeavesComplete ==
    [][\A j \in Jobs :
          Returns(j) /\ response'[j].kind = "success"
              => /\ download_progress'[download_id[j]].status = "complete"
                 /\ download_progress'[download_id[j]].percent = 100]_vars

\* C7: a poll changes nothing in the tracker map; it returns the record of
\* the id asked when there is one and the sentinel (phase unknown, percent 0)
\* when there is none.
C7_PollIsReadOnly ==
    [][pollResult' # pollResult
          => /\ download_progress' = download_progress
             /\ pollResult'.body =
                   IF pollResult'.download_id \in DOMAIN download_progress
                   THEN download_progress[pollResult'.download_id]
                   ELSE [status |-> "unknown", percent |-> 0, eta |-> "-"]]_vars

\* C7 witness: a poll for an id without a record, while another id has one,
\* got the sentinel
C7_PolledUnknownId ==
    /\ pollResult.download_id # NoId
    /\ pollResult.download_id \notin DOMAIN download_progress
    /\ DOMAIN download_progress # {}
    /\ pollResult.body.status = "unknown"

\* C8: a record returned by a poll is never torn: phase complete comes with
\* percent 100 and the eta label Done, phase post-processing with the eta
\* label Post-processing...
C8_NoTornRecord ==
    /\ pollResult.body.status = "complete"
          => pollResult.body.percent = 100 /\ pollResult.body.eta = "Done"
    /\ pollResult.body.status = "post-processing"
          => pollResult.body.eta = "Post-processing..."

\* C9: two download calls never run under the same job id.
C9_FreshJobIds ==
    \A j1, j2 \in Jobs :
        j1 # j2 /\ download_id[j1] # NoId /\ download_id[j2] # NoId
            => download_id[j1] # download_id[j2]

\* frameRate with a missing frame rate counted as 30
FpsOr30(fps) == IF fps \in {"absent", "None"} THEN "30" ELSE fps

\* C10: the catalog has at most one video entry per (height, frame rate or
\* 30) pair and at most one audio-only entry; the fallback entry is the whole
\* catalog when no format is a usable video or audio format and appears in
\* no other case; the catalog is never empty.
C10_CatalogShape ==
    apc = "done" =>
        LET n == Len(formats)
            video == {i \in 1 .. n : formats[i].type = "video"
                                     /\ formats[i] # FallbackEntry}
            audio == {i \in 1 .. n : formats[i].type = "audio"}
            usable == {i \in 1 .. Len(all_formats) :
                          IsVideo(all_formats[i]) \/ IsAudio(all_formats[i])}
        IN /\ \A i, k \in video :
                 /\ formats[i].resolution[1] = formats[k].resolution[1]
                 /\ FpsOr30(formats[i].fps) = FpsOr30(formats[k].fps)
                 => i = k
           /\ Cardinality(audio) <= 1
           /\ n >= 1
           /\ usable = {} <=> formats = <<FallbackEntry>>
           /\ \A i \in 1 .. n : formats[i] = FallbackEntry => n = 1

\* C11: when a download call returns success, the reported final path is a
\* file on disk at that moment, whatever the trim, convert, compress and
\* audio-only options of the request.
C11_FinalPathExists ==
    [][\A j \in Jobs :
          Returns(j) /\ response'[j].kind = "success"
              => response'[j].path \in disk']_vars

\* C11 witness: a call that trimmed and converted to the extension of its
\* download has returned success
C11_SameExtensionConverted ==
    /\ pc[1] = "done"
    /\ response[1].kind = "success"
    /\ req[1].trim
    /\ req[1].convert_to = filename[1].ext
    /\ response[1].path = filename[1]
    /\ response[1].path \in disk

\* C12: in every reachable state the percent of every progress record is
\* within 0..100.
C12_PercentInRange ==
    \A id \in DOMAIN download_progress :
        download_progress[id].percent \in 0 .. 100

\* C13: a delete_file call whose filename is missing, or holds "/", "\\" or
\* "..", ends with an error, and no step of it removes a file or changes
\* db.json.
C13_InvalidFilenameRejected ==
    [][/\ delete_pc' # delete_pc
       /\ \/ Falsy(delete_filename')
          \/ In("/", delete_filename')
          \/ In("\\", delete_filename')
          \/ In("..", delete_filename')
       => /\ disk' = disk
          /\ dbfile' = dbfile
          /\ delete_pc' = "done" => delete_response'.kind = "error"]_vars

\* C13 witness: a request for a name of the media folder with a backslash
\* in front was rejected while the file is on disk and db.json lists it
C13_BackslashRejected ==
    /\ delete_pc = "done"
    /\ delete_filename.prefix = <<"\\">>
    /\ delete_filename.base \in disk
    /\ dbfile.state = "json"
    /\ \E i \in DOMAIN dbfile.items : dbfile.items[i] = delete_filename.base
    /\ delete_response.kind = "error"

\* a raw event without a usable total: neither total_bytes nor
\* total_bytes_estimate, or an estimate of None
TotalAbsent(d) == d.total_bytes = 0 /\ d.total_bytes_estimate \in {0, NoneInt}

\* C14: a raw event whose status is neither downloading nor finished (or is
\* missing), or a downloading event whose total is absent, leaves the tracker
\* as it is when yt-dlp delivers it to the progress hook of a running call.
C14_MalformedEventDropped ==
    \A j \in Jobs : \A d \in Events :
        /\ pc[j] = "fetch" /\ nevents[j] < MaxEvents
        /\ \/ d.status \notin {"downloading", "finished"}
           \/ d.status = "downloading" /\ TotalAbsent(d)
        => progress_hook(download_progress, download_id[j], d) = download_progress

\* C15: in every run of a download call the encoders are invoked in the order
\* Trim, then Convert or Compress, each at most once and never both Convert
\* and Compress; with a target extension Compress is not invoked even when
\* compress is true, and Compress is invoked only when no convert is
\* requested, the call is not audio-only and compress is true.
C15_EncoderOrder ==
    \A j \in Jobs :
        /\ invoked[j] \in {<<>>, <<"trim">>, <<"convert">>, <<"compress">>,
                           <<"trim", "convert">>, <<"trim", "compress">>}
        /\ \A i \in DOMAIN invoked[j] :
              /\ invoked[j][i] = "trim" => req[j].trim
              /\ invoked[j][i] = "convert" => req[j].convert_to # None
              /\ invoked[j][i] = "compress" =>
                    /\ req[j].convert_to = None
                    /\ ~req[j].extract_audio
                    /\ req[j].compress

\* C15 witness: a call asked to trim, to convert and to compress has returned
\* success after the Trim and the Convert encoder, in this order
C15_TrimThenConvertOnly ==
    /\ pc[1] = "done"
    /\ response[1].kind = "success"
    /\ req[1].trim /\ req[1].convert_to # None
    /\ req[1].compress /\ ~req[1].extract_audio
    /\ invoked[1] = <<"trim", "convert">>

\* a request that asks for no trim and no conversion, and whose compress flag
\* is off or void because the call is audio-only
NoStageRequested(r) ==
    /\ ~r.trim
    /\ r.convert_to = None
    /\ ~(r.compress /\ ~r.extract_audio)

\* C16: once the fetch of a call with such a request is over, no encoder is
\* invoked, no file is created or deleted, and the path a successful call
\* reports is the path of the download itself.
C16_NothingToDo ==
    [][\A j \in Jobs :
          NoStageRequested(req[j]) /\ pc[j] \notin {"idle", "fetch"}
              => /\ invoked'[j] = <<>>
                 /\ disk' = disk
                 /\ Returns(j) /\ response'[j].kind = "success"
                       => response'[j].path = filename[j]]_vars

\* C16 witness: an audio-only call with compress left on has returned success
\* with its download as the only file
C16_AudioOnlyUntouched ==
    /\ pc[1] = "done"
    /\ response[1].kind = "success"
    /\ NoStageRequested(req[1])
    /\ req[1].compress /\ req[1].extract_audio
    /\ invoked[1] = <<>>
    /\ response[1].path = filename[1]
    /\ disk = {filename[1]}

\* C17: in the catalog the video entries come in non-increasing order of
\* height, and the audio-only entry, when there is one, is the last entry.
C17_CatalogOrder ==
    apc = "done" =>
        LET n == Len(formats)
        IN /\ \A i, k \in 1 .. n :
                 /\ i < k
                 /\ formats[i].type = "video" /\ formats[k].type = "video"
                 => formats[i].resolution[1] >= formats[k].resolution[1]
           /\ \A i \in 1 .. n : formats[i].type = "audio" => i = n

\* C17 witness: a list with the lower video format first gave a catalog with
\* the higher one first and the audio-only entry at the end
C17_SortedWithAudioLast ==
    /\ apc = "done"
    /\ Len(all_formats) = 3 /\ Len(formats) = 3
    /\ IsVideo(all_formats[1]) /\ IsVideo(all_formats[2])
    /\ all_formats[1].height < all_formats[2].height
    /\ formats[1].resolution[1] > formats[2].resolution[1]
    /\ formats[2].type = "video"
    /\ formats[3].type = "audio"

\* C18: when the list has audio formats, one of them with maximal abr (a
\* missing abr counting as 0) is the best audio: every video entry has the
\* format_id "{video id}+{that audio id}" and the audio-only entry has that
\* audio id; when the list has no audio format, every video entry has the
\* video id alone as format_id and there is no audio-only entry.
C18_BestAudioSelection ==
    apc = "done" =>
        LET n == Len(formats)
            audio == {a \in 1 .. Len(all_formats) : IsAudio(all_formats[a])}
            video == {i \in 1 .. n : formats[i].type = "video"
                                     /\ formats[i] # FallbackEntry}
        IN IF audio # {}
           THEN \E b \in audio :
                  /\ \A a \in audio : all_formats[b].abr >= all_formats[a].abr
                  /\ \A i \in video :
                        /\ formats[i].format_id.kind = "plus"
                        /\ formats[i].format_id.a \in 1 .. Len(all_formats)
                        /\ IsVideo(all_formats[formats[i].format_id.a])
                        /\ formats[i].format_id.b = b
                  /\ \E i \in 1 .. n : formats[i].type = "audio"
                  /\ \A i \in 1 .. n :
                        formats[i].type = "audio"
                            => formats[i].format_id = [kind |-> "id", a |-> b, b |-> 0]
           ELSE /\ \A i \in 1 .. n : formats[i].type # "audio"
                /\ \A i \in video :
                      /\ formats[i].format_id.kind = "id"
                      /\ formats[i].format_id.a \in 1 .. Len(all_formats)
                      /\ IsVideo(all_formats[formats[i].format_id.a])

\* C18 witness: of two audio formats the second has the higher abr; the video
\* entry is paired with it and the audio-only entry names it
C18_HigherAbrChosen ==
    /\ apc = "done"
    /\ Len(all_formats) = 3
    /\ IsAudio(all_formats[1]) /\ IsAudio(all_formats[2])
    /\ all_formats[1].abr < all_formats[2].abr
    /\ IsVideo(all_formats[3])
    /\ Len(formats) = 2
    /\ formats[1].format_id = [kind |-> "plus", a |-> 3, b |-> 2]
    /\ formats[2].format_id = [kind |-> "id", a |-> 2, b |-> 0]

\* C19: every video entry of the catalog is built from the format that comes
\* first in the input list among the video formats with the entry's height
\* and frame rate, a missing frame rate counting as 30.
C19_FirstWins ==
    apc = "done" =>
        \A i \in 1 .. Len(formats) :
            formats[i].type = "video" /\ formats[i] # FallbackEntry
            => LET v == formats[i].format_id.a
               IN \A u \in 1 .. Len(all_formats) :
                     /\ IsVideo(all_formats[u])
                     /\ all_formats[u].height = all_formats[v].height
                     /\ FpsOr30(all_formats[u].fps) = FpsOr30(all_formats[v].fps)
                     => v <= u

\* the record of call j has phase complete or phase error
Settled(j) ==
    /\ download_id[j] \in DOMAIN download_progress
    /\ download_progress[download_id[j]].status \in {"complete", "error"}

C21_CompleteIsFinal ==
    [][\A id \in DOMAIN download_progress :
          download_progress[id].status = "complete"
              => download_progress'[id].status = "complete"]_vars

\* C22: no progress record ever has phase compressing: no call enters the
\* auto-compress branch, and when a call is about to run the compress
\* encoder its record has phase post-processing.
C22_NeverCompressing ==
    /\ \A id \in DOMAIN download_progress :
          download_progress[id].status # "compressing"
    /\ \A j \in Jobs :
          /\ pc[j] \notin {"auto_status", "auto_eta"}
          /\ pc[j] = "compress"
                => download_progress[download_id[j]].status = "post-processing"

\* C22 witness: a call asked for nothing but compression is about to run the
\* compress encoder on its download, under phase post-processing
C22_CompressUnderPostProcessing ==
    /\ pc[1] = "compress"
    /\ ~req[1].trim /\ req[1].convert_to = None
    /\ req[1].compress /\ ~req[1].extract_audio
    /\ temp_file[1] = filename[1]
    /\ filename[1] \in disk
    /\ download_progress[download_id[1]].status = "post-processing"

====
